---- MODULE Spec2Model ----
(***************************************************************************)
(* The video editor of MagistoryInstantVideo: the segment/timeline model   *)
(* with its snapshot undo/redo history (VideoEditor), the playback         *)
(* synchronizer of the preview (PreviewWindow.currentRenderState) and the  *)
(* per-frame lookup of the browser exporter (ExportModal.renderFrame).     *)
(*                                                                         *)
(* Time is counted in ticks of a quarter second, so that 0.5 s is two      *)
(* ticks and a playhead can stand strictly inside the half second next to  *)
(* a segment edge.  Arithmetic on times is exact (rational), not IEEE.     *)
(***************************************************************************)
EXTENDS Integers, Sequences, FiniteSets, TLC

VARIABLES
    history,          \* {past, present, future} of {segments, audioTracks}
    activeSegmentId,  \* id of the selected segment
    currentTime,      \* playhead, in ticks
    isPlaying,        \* the playback loop is running
    search,           \* the media search modal: its state, activeRequestRef and requests in flight
    server,           \* the API server: stored credits and the /credits/deduct requests in flight
    now,              \* Date.now() of the next user event
    gen,              \* the voice generation in flight, with the render it was started from
    modal,            \* the export dialog: isOpen, status, progress, videoUrl, error, rendererRef
    runs,             \* every handleStartExport invocation so far, with its closure
    last              \* the last operation on the history (or refused split), and the history before it

vars == <<history, activeSegmentId, currentTime, isPlaying, search, server, now, gen, modal, runs, last>>

(***************************************************************************)
(* Bounds of the model.                                                    *)
(***************************************************************************)
MaxOps == 2
MaxSegs == 3
MaxClips == 2
MaxTracks == 1
MaxParts == 2

(***************************************************************************)
(* Program constants, in ticks.                                            *)
(***************************************************************************)
HalfSecond == 2
OneSecond == 2 * HalfSecond
NewSegmentDuration == 3 * OneSecond

(***************************************************************************)
(* JavaScript numbers: a time is an integer number of ticks, or NaN.       *)
(* NaN is absorbing for + and -, and every comparison with it is false.    *)
(***************************************************************************)
NaN == -999
IsNaN(x) == x = NaN
Add(a, b) == IF IsNaN(a) \/ IsNaN(b) THEN NaN ELSE a + b
Sub(a, b) == IF IsNaN(a) \/ IsNaN(b) THEN NaN ELSE a - b
Lt(a, b) == ~IsNaN(a) /\ ~IsNaN(b) /\ a < b
Le(a, b) == ~IsNaN(a) /\ ~IsNaN(b) /\ a <= b
Gt(a, b) == Lt(b, a)
Ge(a, b) == Le(b, a)
MathMax(a, b) == IF IsNaN(a) \/ IsNaN(b) THEN NaN ELSE IF a >= b THEN a ELSE b
MathMin(a, b) == IF IsNaN(a) \/ IsNaN(b) THEN NaN ELSE IF a <= b THEN a ELSE b

(***************************************************************************)
(* Optional values: undefined is the empty tuple, a value v is <<v>>.      *)
(***************************************************************************)
Undefined == <<>>
Some(v) == <<v>>

(***************************************************************************)
(* Sequence helpers.                                                       *)
(***************************************************************************)
Last(s) == s[Len(s)]
Front(s) == SubSeq(s, 1, Len(s) - 1)
RemoveAt(s, i) == SubSeq(s, 1, i - 1) \o SubSeq(s, i + 1, Len(s))
InsertAt(s, i, e) == SubSeq(s, 1, i - 1) \o <<e>> \o SubSeq(s, i, Len(s))

RECURSIVE Flatten(_)
Flatten(ss) == IF ss = <<>> THEN <<>> ELSE Head(ss) \o Flatten(Tail(ss))

(* Array.prototype.join(' ') on a list of words: the text is a sequence of *)
(* tokens, each a word or the separator " ".                               *)
RECURSIVE JoinSpace(_)
JoinSpace(ws) ==
    IF ws = <<>> THEN <<>>
    ELSE IF Len(ws) = 1 THEN <<ws[1]>>
    ELSE <<ws[1], " ">> \o JoinSpace(Tail(ws))

(***************************************************************************)
(* totalDuration = segments.reduce((acc, s) => acc + s.duration, 0)        *)
(***************************************************************************)
RECURSIVE SumDurations(_)
SumDurations(segs) ==
    IF segs = <<>> THEN 0
    ELSE Add(SumDurations(Front(segs)), Last(segs).duration)

totalDuration == SumDurations(history.present.segments)

segments == history.present.segments
audioTracks == history.present.audioTracks

(***************************************************************************)
(* Inputs the user and the collaborators can supply.                       *)
(***************************************************************************)
EmptyText == <<>>
TextAB == <<"a", " ", "b">>
TextWide == <<"a", " ", " ", "b">>
Texts == {EmptyText, TextAB}
(* value of the duration input: "" (cleared field) parses to NaN *)
DurationInputs == {NaN, 1, 2 * OneSecond}
(* audio.duration of an attached or generated narration; NaN when unknown *)
AudioDurations == {NaN, 3, 2 * OneSecond}
(* measured length of a picked music or effect file *)
TrackDurations == {2 * OneSecond}
Transitions == {"fade", "none"}
(* volumes in tenths: the slider goes from 0 to 1 in steps of 0.1 *)
DefaultTrackVolume == 8
ServerDefaultVolume == 5
TrackVolumes == {0, 3, 10}
(* where a track can be dropped on the timeline *)
TrackStartTimes == {OneSecond, 2 * OneSecond}
TrackUpdates == {[volume |-> v] : v \in TrackVolumes} \cup {[startTime |-> t] : t \in TrackStartTimes}
SeekTimes == {1, 2, 3, 5, 7}
(* time between two animation frames of the playback loop *)
TickDeltas == {1, 3}

Digits == <<"0", "1", "2", "3", "4", "5", "6", "7", "8", "9">>
ToStr(i) == Digits[i + 1]

(***************************************************************************)
(* Segments, clips and the initial scripts.                                *)
(***************************************************************************)
(* an object URL of an audio file; `len` is the length of the file it names, *)
(* NaN when the file cannot be measured                                     *)
AudioUrl(kind, len) == <<kind, len>>

Clip(id, url) == [id |-> id, url |-> url]

Segment(id, text, media, duration) ==
    [id |-> id, narration_text |-> text, media |-> media, duration |-> duration,
     audioUrl |-> Undefined, wordTimings |-> Undefined, transition |-> "fade"]

WordTiming(w, s, e) == [word |-> w, start |-> s, end |-> e]

InitialScripts ==
    { << Segment(<<"segment", 0, "s1">>, TextAB,
                 <<Clip(<<"clip", 0, "c1">>, "stock")>>, OneSecond + HalfSecond) >>,
      << Segment(<<"segment", 0, "s1">>, TextWide,
                 <<Clip(<<"clip", 0, "c1">>, "stock"), Clip(<<"clip", 0, "c2">>, "stock")>>,
                 OneSecond + HalfSecond),
         Segment(<<"segment", 0, "s2">>, EmptyText,
                 <<Clip(<<"clip", 0, "c3">>, "stock")>>, OneSecond) >> }

HasTimings(s) == s.wordTimings # Undefined /\ Len(s.wordTimings[1]) > 0
Timings(s) == IF s.wordTimings = Undefined THEN <<>> ELSE s.wordTimings[1]

FindIndex(segs, id) ==
    IF \E i \in DOMAIN segs : segs[i].id = id
    THEN CHOOSE i \in DOMAIN segs : segs[i].id = id /\ \A j \in 1 .. (i - 1) : segs[j].id # id
    ELSE 0

(***************************************************************************)
(* Playback synchronizer of the preview.                                   *)
(***************************************************************************)
NullState == [segmentIndex |-> 0, localTime |-> NaN, clipIndex |-> NaN]

(* Math.min(n - 1, Math.floor(localTime / (duration / n))) *)
ClipIndexAt(localTime, duration, n) ==
    IF IsNaN(localTime) \/ IsNaN(duration) THEN NaN
    ELSE IF n = 0 THEN -1
    ELSE MathMin(n - 1, (localTime * n) \div duration)

RECURSIVE ResolveFrom(_, _, _, _)
ResolveFrom(segs, i, elapsed, t) ==
    IF i > Len(segs) THEN NullState
    ELSE IF Ge(t, elapsed) /\ Lt(t, Add(elapsed, segs[i].duration))
         THEN [segmentIndex |-> i,
               localTime |-> Sub(t, elapsed),
               clipIndex |-> ClipIndexAt(Sub(t, elapsed), segs[i].duration, Len(segs[i].media))]
         ELSE ResolveFrom(segs, i + 1, Add(elapsed, segs[i].duration), t)

currentRenderStateAt(segs, t) == ResolveFrom(segs, 1, 0, t)

currentRenderState == currentRenderStateAt(segments, currentTime)

(***************************************************************************)
(* Per-frame lookup of the browser exporter.                               *)
(***************************************************************************)
(* a start time that already includes the segment's own duration *)
segmentStartTimesInclusive(segs) == [i \in DOMAIN segs |-> SumDurations(SubSeq(segs, 1, i))]

segmentStartTimes(segs) == [i \in DOMAIN segs |-> SumDurations(SubSeq(segs, 1, i - 1))]

renderFrameIndex(segs, totalTime) ==
    LET starts == segmentStartTimes(segs)
        hit(i) == Ge(totalTime, starts[i]) /\ Lt(totalTime, Add(starts[i], segs[i].duration))
    IN  IF \E i \in DOMAIN segs : hit(i)
        THEN CHOOSE i \in DOMAIN segs : hit(i) /\ \A j \in 1 .. (i - 1) : ~hit(j)
        ELSE IF Ge(totalTime, SumDurations(segs)) THEN Len(segs) ELSE 1

renderFrame(segs, totalTime) ==
    LET i == renderFrameIndex(segs, totalTime)
        timeInSegment == Sub(totalTime, segmentStartTimes(segs)[i])
    IN  [segmentIndex |-> i,
         localTime |-> timeInSegment,
         clipIndex |-> ClipIndexAt(timeInSegment, segs[i].duration, Len(segs[i].media))]

(***************************************************************************)
(* History wrapper.                                                        *)
(***************************************************************************)
(* a wrapper that leaves the redo list in place *)
updateHistoryKeepFuture(curr, newSegments, newAudioTracks) ==
    [past |-> Append(curr.past, curr.present),
     present |-> [segments |-> newSegments, audioTracks |-> newAudioTracks],
     future |-> curr.future]

updateHistory(curr, newSegments, newAudioTracks) ==
    [past |-> Append(curr.past, curr.present),
     present |-> [segments |-> newSegments, audioTracks |-> newAudioTracks],
     future |-> <<>>]

(* `closure` is history.present of the render whose callback is called *)
updateSegments(closure, curr, newSegments) ==
    updateHistory(curr, newSegments, closure.audioTracks)

updateAudioTracks(closure, curr, newTracks) ==
    updateHistory(curr, closure.segments, newTracks)

(* future: [...curr.future, curr.present] *)
handleUndoAppendsFuture(curr) ==
    IF Len(curr.past) = 0 THEN curr
    ELSE [past |-> Front(curr.past),
          present |-> Last(curr.past),
          future |-> curr.future \o <<curr.present>>]

handleUndo(curr) ==
    IF Len(curr.past) = 0 THEN curr
    ELSE [past |-> Front(curr.past),
          present |-> Last(curr.past),
          future |-> <<curr.present>> \o curr.future]

handleRedo(curr) ==
    IF Len(curr.future) = 0 THEN curr
    ELSE [past |-> Append(curr.past, curr.present),
          present |-> Head(curr.future),
          future |-> Tail(curr.future)]

MapSegment(segs, id, F(_)) ==
    [i \in DOMAIN segs |-> IF segs[i].id = id THEN F(segs[i]) ELSE segs[i]]

(* the effect that keeps activeSegmentId valid after every render *)
EnsureActive(id, segs) ==
    IF FindIndex(segs, id) # 0 THEN id
    ELSE IF Len(segs) > 0 THEN segs[1].id ELSE <<"null", 0, "">>

activeSegmentIndex == FindIndex(segments, activeSegmentId)
activeSegment == segments[activeSegmentIndex]

Op(name, pre, idx, t) == [op |-> name, pre |-> pre, idx |-> idx, t |-> t]

MutatingOps ==
    {"updateMedia", "reorderClips", "deleteSegment", "createSegment", "removeMedia",
     "updateAudio", "updateDuration", "nudge", "reorder", "split", "scriptChange",
     "addAudioTrack", "deleteAudioTrack", "generate", "removeAudio"}

(* one user event that goes through the history wrapper *)
Commit(name, newHistory, newActive, idx, t) ==
    /\ now <= MaxOps
    /\ history' = newHistory
    /\ activeSegmentId' = EnsureActive(newActive, newHistory.present.segments)
    /\ now' = now + 1
    /\ last' = Op(name, history, idx, t)
    /\ UNCHANGED <<currentTime, isPlaying, search, server, gen, modal, runs>>

(***************************************************************************)
(* Segment handlers of VideoEditor: each is the updater handed to          *)
(* updateSegments, as a function of the segment list it is applied to.     *)
(***************************************************************************)
(* clipIdx = 0 stands for clipId null: append a clip with a minted id *)
handleUpdateSegmentMedia(prev, segmentId, clipIdx, newUrl, t) ==
    LET replace(s) == [s EXCEPT !.media =
                         [k \in DOMAIN s.media |->
                            IF s.media[k].id = s.media[clipIdx].id
                            THEN [s.media[k] EXCEPT !.url = newUrl] ELSE s.media[k]]]
        append(s) == [s EXCEPT !.media = Append(s.media, Clip(<<"clip", t, "">>, newUrl))]
    IN  IF clipIdx = 0 THEN MapSegment(prev, segmentId, append)
        ELSE MapSegment(prev, segmentId, replace)

handleReorderClips(prev, segmentId, newMedia) ==
    MapSegment(prev, segmentId, LAMBDA s : [s EXCEPT !.media = newMedia])

(* a delete without the `prev.length <= 1` guard *)
handleDeleteSegmentUnguarded(prev, activeId) ==
    SelectSeq(prev, LAMBDA s : s.id # activeId)

handleDeleteSegment(prev, activeId) ==
    IF Len(prev) <= 1 THEN prev
    ELSE SelectSeq(prev, LAMBDA s : s.id # activeId)

(* the segment id the deferred setActiveSegmentId of handleDeleteSegment picks *)
DeleteNextActive(prev, activeId) ==
    IF Len(prev) <= 1 THEN activeId
    ELSE LET index == FindIndex(prev, activeId) - 1
             newSegments == handleDeleteSegment(prev, activeId)
             k == IF index - 1 > 0 THEN index - 1 ELSE 0
         IN  newSegments[k + 1].id

handleCreateNewSegment(prev, newUrl, t) ==
    Append(prev, Segment(<<"segment", t, "">>, EmptyText,
                         <<Clip(<<"clip", t, "">>, newUrl)>>, NewSegmentDuration))

handleRemoveMedia(prev, segmentId, clipId) ==
    MapSegment(prev, segmentId,
               LAMBDA s : IF Len(s.media) <= 1 THEN s
                          ELSE [s EXCEPT !.media = SelectSeq(s.media, LAMBDA c : c.id # clipId)])

(* an attach that takes every measured length, longer ones too *)
handleUpdateSegmentAudioGrow(prev, segmentId, newAudioUrl, audioDuration) ==
    MapSegment(prev, segmentId,
               LAMBDA s :
                 LET newDuration ==
                       IF newAudioUrl # Undefined /\ Gt(audioDuration, 0)
                       THEN audioDuration ELSE s.duration
                 IN  [s EXCEPT !.audioUrl = newAudioUrl, !.duration = newDuration])

(* newAudioUrl is Undefined or Some(url); audioDuration is NaN when absent *)
handleUpdateSegmentAudio(prev, segmentId, newAudioUrl, audioDuration) ==
    MapSegment(prev, segmentId,
               LAMBDA s :
                 LET newDuration ==
                       IF newAudioUrl # Undefined /\ Gt(audioDuration, 0)
                          /\ Lt(audioDuration, s.duration)
                       THEN audioDuration ELSE s.duration
                 IN  [s EXCEPT !.audioUrl = newAudioUrl, !.duration = newDuration])

handleUpdateWordTimings(prev, segmentId, timings) ==
    MapSegment(prev, segmentId, LAMBDA s : [s EXCEPT !.wordTimings = Some(timings)])

handleUpdateSegmentDuration(prev, segmentId, newDuration) ==
    MapSegment(prev, segmentId, LAMBDA s : [s EXCEPT !.duration = newDuration])

(* Math.max(1, parseFloat(e.target.value)) *)
handleDurationChange(value) == MathMax(OneSecond, value)

Swap(s, i, j) == [s EXCEPT ![i] = s[j], ![j] = s[i]]

handleNudgeSegment(prev, segmentId, direction) ==
    LET i == FindIndex(prev, segmentId)
    IN  IF i = 0 THEN prev
        ELSE IF direction = "left" /\ i > 1 THEN Swap(prev, i - 1, i)
        ELSE IF direction = "right" /\ i < Len(prev) THEN Swap(prev, i + 1, i)
        ELSE prev

(* Timeline drop: splice(draggedIdx, 1) then splice(dropIndex, 0, dragged) *)
handleSegmentDrop(segs, draggedIdx, dropIndex) ==
    InsertAt(RemoveAt(segs, draggedIdx), dropIndex, segs[draggedIdx])

(* PreviewWindow clip drop: the same two splices on the segment's media *)
handleClipDrop(media, draggedClipIndex, dropIndex) ==
    InsertAt(RemoveAt(media, draggedClipIndex), dropIndex, media[draggedClipIndex])

(***************************************************************************)
(* handleSplitSegment                                                      *)
(***************************************************************************)
(* a guard that forgets the upper edge *)
SplitRejectedLowerOnly(original, splitTime) ==
    Lt(splitTime, HalfSecond)

SplitRejected(original, splitTime) ==
    Lt(splitTime, HalfSecond) \/ Gt(splitTime, Sub(original.duration, HalfSecond))

SplitTimingsA(original, splitTime) ==
    SelectSeq(Timings(original), LAMBDA w : Le(w.end, splitTime))

(* a second half that also takes the word ending exactly at the split time *)
SplitTimingsBInclusive(original, splitTime) ==
    LET kept == SelectSeq(Timings(original), LAMBDA w : Ge(w.end, splitTime))
    IN  [k \in DOMAIN kept |->
           [kept[k] EXCEPT !.start = Sub(kept[k].start, splitTime),
                           !.end = Sub(kept[k].end, splitTime)]]

SplitTimingsB(original, splitTime) ==
    LET kept == SelectSeq(Timings(original), LAMBDA w : Gt(w.end, splitTime))
    IN  [k \in DOMAIN kept |->
           [kept[k] EXCEPT !.start = Sub(kept[k].start, splitTime),
                           !.end = Sub(kept[k].end, splitTime)]]

WordsOf(timings) == [k \in DOMAIN timings |-> timings[k].word]

(* every copied clip gets the id `clip-${Date.now()}-split` *)
SplitMediaB(original, t) ==
    [k \in DOMAIN original.media |-> [original.media[k] EXCEPT !.id = <<"clip", t, "split">>]]

SplitSegA(original, splitTime) ==
    IF HasTimings(original)
    THEN [original EXCEPT !.duration = splitTime,
                          !.narration_text = JoinSpace(WordsOf(SplitTimingsA(original, splitTime))),
                          !.wordTimings = Some(SplitTimingsA(original, splitTime)),
                          !.audioUrl = Undefined]
    ELSE [original EXCEPT !.duration = splitTime,
                          !.wordTimings = Undefined,
                          !.audioUrl = Undefined]

(* a second half that keeps the whole duration of the original *)
SplitSegBFullDuration(original, splitTime, t) ==
    [original EXCEPT !.id = <<"segment", t, "split">>,
                     !.narration_text = JoinSpace(WordsOf(SplitTimingsB(original, splitTime))),
                     !.wordTimings = IF HasTimings(original)
                                     THEN Some(SplitTimingsB(original, splitTime))
                                     ELSE Undefined,
                     !.media = SplitMediaB(original, t),
                     !.audioUrl = Undefined]

SplitSegB(original, splitTime, t) ==
    IF HasTimings(original)
    THEN [original EXCEPT !.id = <<"segment", t, "split">>,
                          !.duration = Sub(original.duration, splitTime),
                          !.narration_text = JoinSpace(WordsOf(SplitTimingsB(original, splitTime))),
                          !.wordTimings = Some(SplitTimingsB(original, splitTime)),
                          !.media = SplitMediaB(original, t),
                          !.audioUrl = Undefined]
    ELSE [original EXCEPT !.id = <<"segment", t, "split">>,
                          !.duration = Sub(original.duration, splitTime),
                          !.narration_text = EmptyText,
                          !.wordTimings = Undefined,
                          !.media = SplitMediaB(original, t),
                          !.audioUrl = Undefined]

(* newSegments.splice(index, 1, segA, segB) *)
handleSplitSegment(segs, index, splitTime, t) ==
    SubSeq(segs, 1, index - 1)
      \o <<SplitSegA(segs[index], splitTime), SplitSegB(segs[index], splitTime, t)>>
      \o SubSeq(segs, index + 1, Len(segs))

(***************************************************************************)
(* handleScriptChange of the preview's script panel; `parts` is            *)
(* newText.split(/\n\n+/), never empty.                                    *)
(***************************************************************************)
handleScriptChange(segs, parts, t) ==
    LET maxLen == IF Len(parts) >= Len(segs) THEN Len(parts) ELSE Len(segs)
        lastSeg == segs[Len(segs)]
        item(i) ==
            IF i <= Len(parts)
            THEN IF i <= Len(segs)
                 THEN [segs[i] EXCEPT !.narration_text = parts[i],
                                      !.audioUrl = Undefined,
                                      !.wordTimings = Undefined]
                 ELSE [lastSeg EXCEPT !.id = <<"segment", t, ToStr(i - 1)>>,
                                      !.narration_text = parts[i],
                                      !.audioUrl = Undefined,
                                      !.wordTimings = Undefined,
                                      !.media = lastSeg.media]
            ELSE [segs[i] EXCEPT !.narration_text = EmptyText,
                                 !.audioUrl = Undefined,
                                 !.wordTimings = Undefined]
    IN  [i \in 1 .. maxLen |-> item(i)]

ScriptParts == UNION {[1 .. k -> Texts] : k \in 1 .. MaxParts}

(***************************************************************************)
(* Narration: estimateWordTimings spreads the words of the text evenly    *)
(* over the duration.                                                      *)
(***************************************************************************)
TextWords(text) == SelectSeq(text, LAMBDA tok : tok # " ")

estimateWordTimings(text, duration) ==
    LET ws == TextWords(text)
        n == Len(ws)
    IN  [k \in 1 .. n |->
           WordTiming(ws[k],
                      IF IsNaN(duration) THEN NaN ELSE ((k - 1) * duration) \div n,
                      IF IsNaN(duration) THEN NaN ELSE (k * duration) \div n)]

(* Math.ceil of a time in seconds *)
MathCeil(d) == IF IsNaN(d) THEN NaN ELSE ((d + OneSecond - 1) \div OneSecond) * OneSecond

IdleGen == [pc |-> "idle"]

(* audio.duration && isFinite(audio.duration) ? Math.ceil(audio.duration) : segment.duration *)
GeneratedDuration(audioDuration, segment) ==
    IF ~IsNaN(audioDuration) /\ audioDuration # 0 THEN MathCeil(audioDuration) ELSE segment.duration

(* the calls of handleGenerateCurrentAudio after its awaits, in order: each goes *)
(* through the callbacks of the render the generation was started from           *)
GenerateCalls(closure, segment, audioDuration) ==
    LET duration == GeneratedDuration(audioDuration, segment)
    IN  <<handleUpdateSegmentAudio(closure.segments, segment.id,
                                   Some(AudioUrl("voice", audioDuration)), duration),
          handleUpdateWordTimings(closure.segments, segment.id,
                                  estimateWordTimings(segment.narration_text, duration))>>
        \o (IF Gt(duration, segment.duration)
            THEN <<handleUpdateSegmentDuration(closure.segments, segment.id, duration)>>
            ELSE <<>>)

(* handleRemoveAudio: onUpdateAudio(id, undefined) then onUpdateWordTimings(id, []) *)
RemoveAudioCalls(closure, segment) ==
    <<handleUpdateSegmentAudio(closure.segments, segment.id, Undefined, NaN),
      handleUpdateWordTimings(closure.segments, segment.id, <<>>)>>

(* successive updateSegments calls of one callback instance *)
RECURSIVE ApplyCalls(_, _, _)
ApplyCalls(closure, curr, calls) ==
    IF calls = <<>> THEN curr
    ELSE ApplyCalls(closure, updateSegments(closure, curr, Head(calls)), Tail(calls))

(***************************************************************************)
(* Audio tracks.                                                           *)
(***************************************************************************)
handleAddAudioTrack(prev, duration, t) ==
    Append(prev, [id |-> <<"audio", t, "">>, startTime |-> 0,
                  duration |-> IF IsNaN(duration) \/ duration = 0 THEN 10 * OneSecond ELSE duration,
                  volume |-> DefaultTrackVolume])

handleUpdateSegmentTransition(prev, segmentId, newTransition) ==
    MapSegment(prev, segmentId, LAMBDA s : [s EXCEPT !.transition = newTransition])

(* { ...t, ...updates } on the track with that id *)
handleUpdateAudioTrack(prev, trackId, updates) ==
    [k \in DOMAIN prev |->
       IF prev[k].id = trackId
       THEN [f \in DOMAIN prev[k] |-> IF f \in DOMAIN updates THEN updates[f] ELSE prev[k][f]]
       ELSE prev[k]]

handleDeleteAudioTrack(prev, trackId) == SelectSeq(prev, LAMBDA tr : tr.id # trackId)

(***************************************************************************)
(* Server renderer (renderVideo): the length of each rendered segment.     *)
(***************************************************************************)
(* ffprobe on the saved narration file; NaN when the probe is rejected *)
getMediaDuration(audioUrl) == audioUrl[2]

(* seg.duration || 3 *)
DurationOrDefault(d) == IF IsNaN(d) \/ d = 0 THEN 3 * OneSecond ELSE d

exactDuration(seg) ==
    IF seg.audioUrl # Undefined
    THEN IF IsNaN(getMediaDuration(seg.audioUrl[1]))
         THEN DurationOrDefault(seg.duration)
         ELSE getMediaDuration(seg.audioUrl[1])
    ELSE seg.duration

(* every seg_i.mp4 is cut with `-t exactDuration`, then the files are concatenated *)
RECURSIVE renderVideoDuration(_)
renderVideoDuration(segs) ==
    IF segs = <<>> THEN 0
    ELSE Add(renderVideoDuration(Front(segs)), exactDuration(Last(segs)))

(* the total the browser exporter stops its frame loop at *)
exportTotalDuration(segs) == SumDurations(segs)

(***************************************************************************)
(* Captions: preview (renderKaraokeText), browser export (drawKaraokeText) *)
(* and server renderer (createASSFile).                                    *)
(***************************************************************************)
FontSize == 40
DefaultCaptionLines == 2
PreviewMaxWidth == 800
RENDER_WIDTH == 1280
MAX_CHARS == 50

(* the style every script and every new segment is created with *)
textOverlayStyle(seg) == [fontSize |-> FontSize, maxCaptionLines |-> DefaultCaptionLines]

(* the arguments of generateSubtitleChunks in the preview and in the exporter *)
previewChunkerInput(seg) ==
    <<Timings(seg), textOverlayStyle(seg).fontSize, textOverlayStyle(seg).maxCaptionLines,
      PreviewMaxWidth>>

exportChunkerInput(seg) ==
    <<Timings(seg), textOverlayStyle(seg).fontSize, textOverlayStyle(seg).maxCaptionLines,
      (RENDER_WIDTH * 9) \div 10>>

(* pages of maxLines lines, each line as many words as fit maxWidth at fontSize *)
RECURSIVE PagesOf(_, _)
PagesOf(timings, perPage) ==
    IF timings = <<>> THEN <<>>
    ELSE IF Len(timings) <= perPage
         THEN <<[timings |-> timings, start |-> timings[1].start, end |-> Last(timings).end]>>
         ELSE <<[timings |-> SubSeq(timings, 1, perPage), start |-> timings[1].start,
                 end |-> timings[perPage].end]>>
              \o PagesOf(SubSeq(timings, perPage + 1, Len(timings)), perPage)

generateSubtitleChunks(timings, fontSize, maxLines, maxWidth) ==
    PagesOf(timings, maxLines * (maxWidth \div fontSize))

(* chunks.find(c => t >= c.start && t <= c.end) || (t < 0.1 ? chunks[0] : null) *)
DisplayChunk(chunks, t) ==
    IF \E k \in DOMAIN chunks : Ge(t, chunks[k].start) /\ Le(t, chunks[k].end)
    THEN LET k == CHOOSE k \in DOMAIN chunks :
                    /\ Ge(t, chunks[k].start) /\ Le(t, chunks[k].end)
                    /\ \A j \in 1 .. (k - 1) : ~(Ge(t, chunks[j].start) /\ Le(t, chunks[j].end))
         IN  WordsOf(chunks[k].timings)
    ELSE IF Lt(t, 1) /\ chunks # <<>> THEN WordsOf(chunks[1].timings)
    ELSE <<>>

(* the words on screen at local time t; <<>> when nothing is drawn *)
renderKaraokeText(seg, t) ==
    IF seg.narration_text = EmptyText THEN <<>>
    ELSE IF ~HasTimings(seg) THEN <<>>
    ELSE LET in == previewChunkerInput(seg)
         IN  DisplayChunk(generateSubtitleChunks(in[1], in[2], in[3], in[4]), t)

drawKaraokeText(seg, t) ==
    IF seg.narration_text = EmptyText THEN <<>>
    ELSE IF ~HasTimings(seg) THEN <<>>
    ELSE LET in == exportChunkerInput(seg)
         IN  DisplayChunk(generateSubtitleChunks(in[1], in[2], in[3], in[4]), t)

(* t.word.length of the one-letter words of the scripts *)
WordLength(w) == 1

RECURSIVE AssLines(_, _, _, _)
AssLines(timings, k, currentLine, currentLen) ==
    IF k > Len(timings) THEN (IF currentLine = <<>> THEN <<>> ELSE <<currentLine>>)
    ELSE IF currentLen + WordLength(timings[k].word) > MAX_CHARS /\ currentLine # <<>>
         THEN <<currentLine>>
              \o AssLines(timings, k + 1, <<timings[k]>>, WordLength(timings[k].word) + 1)
         ELSE AssLines(timings, k + 1, Append(currentLine, timings[k]),
                       currentLen + WordLength(timings[k].word) + 1)

(* the Dialogue events written to the segment's .ass file *)
createASSFile(text, timings, duration) ==
    IF timings = <<>>
    THEN <<[start |-> 0, end |-> duration, text |-> text]>>
    ELSE LET lines == AssLines(timings, 1, <<>>, 0)
         IN  [j \in DOMAIN lines |->
                [start |-> lines[j][1].start,
                 end |-> IF j = Len(lines) THEN duration ELSE Last(lines[j]).end,
                 text |-> JoinSpace(WordsOf(lines[j]))]]

(* renderVideo burns subtitles in whenever seg.narration_text is truthy *)
serverSubtitles(seg) ==
    IF seg.narration_text # EmptyText
    THEN createASSFile(seg.narration_text, Timings(seg), exactDuration(seg))
    ELSE <<>>

(***************************************************************************)
(* Server renderer, the clips of one segment: every clip is trimmed to     *)
(* perClipDuration and chained with xfade.  Times that are divided by the  *)
(* number of clips are kept as exact fractions num/den of ticks.           *)
(***************************************************************************)
transitionDur == HalfSecond

Frac(num, den) == [num |-> num, den |-> den]
FracEq(a, b) == a.num * b.den = b.num * a.den
FracOfTicks(d) == Frac(d, 1)
FracNaN == Frac(NaN, 1)
IsFracNaN(f) == IsNaN(f.num)

MaxOf(a, b) == IF a >= b THEN a ELSE b

(* requiredTotalRawDuration / Math.max(1, numClips) *)
perClipDurationOf(exact, numClips) ==
    IF IsNaN(exact) THEN FracNaN
    ELSE Frac(exact + MaxOf(0, numClips - 1) * transitionDur, MaxOf(1, numClips))

perClipDuration(seg) == perClipDurationOf(exactDuration(seg), Len(seg.media))

(* the xfade loop: the offsets of clips 1 .. numClips-1, from currentOffset *)
RECURSIVE xfadeLoop(_, _, _, _)
xfadeLoop(perClip, currentOffset, j, numClips) ==
    IF j >= numClips THEN <<>>
    ELSE <<Frac(currentOffset.num - transitionDur * perClip.den, perClip.den)>>
         \o xfadeLoop(perClip,
                      Frac(currentOffset.num + perClip.num - transitionDur * perClip.den,
                           perClip.den),
                      j + 1, numClips)

xfadeOffsets(perClip, numClips) ==
    IF IsFracNaN(perClip) THEN <<>> ELSE xfadeLoop(perClip, perClip, 1, numClips)

(* length of the chained stream: an xfade output ends where its second *)
(* input ends, at offset + the clip's length                           *)
chainLength(perClip, numClips) ==
    IF IsFracNaN(perClip) THEN FracNaN
    ELSE IF numClips <= 1 THEN perClip
    ELSE LET offs == xfadeOffsets(perClip, numClips)
         IN  Frac(offs[Len(offs)].num + perClip.num, perClip.den)

(***************************************************************************)
(* Where the narration of segment i starts on the output timeline.         *)
(***************************************************************************)
(* browser: source.start(currentAudioTime), currentAudioTime += s.duration *)
(* for every segment, relative to the first scheduled start                *)
exportNarrationStart(segs, i) == SumDurations(SubSeq(segs, 1, i - 1))

(* server: the narration is muxed into seg_i.mp4, and the files are concatenated *)
renderNarrationStart(segs, i) == renderVideoDuration(SubSeq(segs, 1, i - 1))

(***************************************************************************)
(* Server renderer, background tracks: adelay by startTime, the volume     *)
(* filter, then amix over the length of the merged segments.               *)
(***************************************************************************)
(* track.volume || 0.5 *)
trackVolume(track) == IF track.volume = 0 THEN ServerDefaultVolume ELSE track.volume

(* the factor on the samples of a track at instant t of a video of that length; *)
(* the file is played from its start to its end, its length being the duration *)
(* measured when the track was added                                            *)
renderTrackGain(track, t, videoLength) ==
    IF IsNaN(videoLength) \/ t >= videoLength THEN 0
    ELSE IF t < track.startTime THEN 0
    ELSE IF t < track.startTime + track.duration THEN trackVolume(track)
    ELSE 0

(***************************************************************************)
(* Browser export: the fade into the next segment at the end of a segment. *)
(***************************************************************************)
(* TRANSITION_DURATION_S, in tenths of a second *)
TransitionTenths == 7

NoBlend == [blend |-> FALSE]

(* the transition block of renderFrame; the progress is an exact fraction *)
exportBlend(segs, totalTime) ==
    LET f == renderFrame(segs, totalTime)
        currentSegment == segs[f.segmentIndex]
        timeToEndOfSegment == Sub(currentSegment.duration, f.localTime)
        window == TransitionTenths * OneSecond
    IN  IF /\ currentSegment.transition = "fade"
           /\ ~IsNaN(timeToEndOfSegment)
           /\ 10 * timeToEndOfSegment < window
           /\ f.segmentIndex < Len(segs)
        THEN [blend |-> TRUE,
              nextSegment |-> f.segmentIndex + 1,
              time |-> 0,
              transitionProgress |-> Frac(window - 10 * timeToEndOfSegment, window)]
        ELSE NoBlend

(***************************************************************************)
(* ExportModal: the dialog's state and the runs of handleStartExport.      *)
(* Each run keeps the closure it was started with: its own isCancelled     *)
(* flag, the segments prop of the render it was clicked in, and totalTime. *)
(* Frames are sampled every FrameTicks instead of every 1/FPS second.      *)
(***************************************************************************)
MaxRuns == 2
MaxPlayhead == 16
MaxExportOps == 1
FrameTicks == HalfSecond

ClosedModal ==
    [isOpen |-> FALSE, status |-> "idle", progress |-> 0, videoUrl |-> Undefined,
     error |-> "", rendererRef |-> 0]

NoFrame == [segmentIndex |-> 0]

NewRun(segs) ==
    [pc |-> "assets", isCancelled |-> FALSE, segments |-> segs, totalTime |-> 0,
     frame |-> NoFrame, drawn |-> 0, stale |-> FALSE]

(* the segment list the frame loop of a run reads *)
exportSegmentsLive(run) == segments

exportSegments(run) == run.segments

(* what one frame shows: segment, clip and caption at totalTime *)
ComposeFrame(segs, totalTime) ==
    LET f == renderFrame(segs, totalTime)
        seg == segs[f.segmentIndex]
    IN  [segmentIndex |-> f.segmentIndex,
         segment |-> seg,
         clipIndex |-> f.clipIndex,
         localTime |-> f.localTime,
         caption |-> drawKaraokeText(seg, f.localTime)]

(* currentClip is undefined, and currentClip.id throws *)
FrameThrows(segs, totalTime) ==
    LET f == renderFrame(segs, totalTime)
    IN  IsNaN(f.clipIndex) \/ f.clipIndex \notin 0 .. (Len(segs[f.segmentIndex].media) - 1)

(* (totalTime / totalDuration) * 100 *)
Percent(totalTime, total) ==
    IF IsNaN(totalTime) \/ IsNaN(total) THEN NaN ELSE (totalTime * 100) \div total

(* the loop of a run whose totalDuration is NaN never ends, and past the *)
(* segments before the NaN every frame is the same: totalTime stops there *)
RECURSIVE FinitePrefix(_)
FinitePrefix(segs) ==
    IF segs = <<>> \/ IsNaN(Head(segs).duration) THEN 0
    ELSE Head(segs).duration + FinitePrefix(Tail(segs))

(* one invocation of renderFrame by a run whose recorder is recording *)
RunAfterFrame(run, liveSegments) ==
    LET segs == exportSegments(run)
        total == SumDurations(run.segments)
    IN  IF run.isCancelled \/ Ge(run.totalTime, total)
        THEN [run EXCEPT !.pc = "stopping"]
        ELSE IF FrameThrows(segs, run.totalTime)
        THEN [run EXCEPT !.pc = "dead"]
        ELSE [run EXCEPT !.pc = "frames",
                         !.frame = ComposeFrame(segs, run.totalTime),
                         !.drawn = run.totalTime,
                         !.stale = (liveSegments # run.segments),
                         !.totalTime = IF IsNaN(total) /\ run.totalTime >= FinitePrefix(run.segments)
                                       THEN run.totalTime
                                       ELSE run.totalTime + FrameTicks]

(* the setProgress of that invocation *)
ModalAfterFrame(m, run) ==
    LET total == SumDurations(run.segments)
    IN  IF run.isCancelled \/ Ge(run.totalTime, total) \/ FrameThrows(exportSegments(run), run.totalTime)
        THEN m
        ELSE [m EXCEPT !.progress = Percent(run.totalTime, total)]

HasAudio(segs) == \E i \in DOMAIN segs : segs[i].audioUrl # Undefined

ActivePcs == {"assets", "audio", "frames", "stopping"}

(***************************************************************************)
(* The media search modal (MediaSearchModal.tsx), in its default mode.     *)
(* The editor mounts it only while it is open, so closing it discards its  *)
(* state, its activeRequestRef and the effect of every pending response.   *)
(***************************************************************************)
MaxSearches == 3

(* what the user can type into the search box *)
Queries == {"", " ", "cat", "dog"}

(* the keywords of the segment the modal is opened for *)
InitialKeywords == {"", "placeholder", "cat"}

SearchTypes == {"photos", "videos", "upload"}

(* String.prototype.trim on the queries above *)
trim(q) == IF q = " " THEN "" ELSE q

ClosedSearch ==
    [isOpen |-> FALSE, query |-> "", searchType |-> "photos", results |-> <<>>,
     isLoading |-> FALSE, error |-> "null", activeRequestRef |-> 0, requests |-> {}]

(* what Pexels answers to a request: one item naming the search it answers, or nothing *)
PexelsData(request, found) ==
    IF found THEN <<[query |-> request.query, searchType |-> request.searchType]>> ELSE <<>>

(* fetchMedia up to its await, in the render whose state is s *)
fetchMedia(s) ==
    IF trim(s.query) = ""
    THEN [s EXCEPT !.results = <<>>]
    ELSE LET requestId == s.activeRequestRef + 1
         IN  [s EXCEPT !.activeRequestRef = requestId,
                       !.isLoading = TRUE,
                       !.error = "null",
                       !.results = <<>>,
                       !.requests = @ \cup {[requestId |-> requestId,
                                             query |-> s.query,
                                             searchType |-> s.searchType]}]

(* fetchMedia after its await resolved with data *)
fetchMediaResolved(s, request, data) ==
    IF request.requestId = s.activeRequestRef
    THEN [s EXCEPT !.results = data, !.isLoading = FALSE, !.requests = @ \ {request}]
    ELSE [s EXCEPT !.requests = @ \ {request}]

(* fetchMedia after its await rejected *)
fetchMediaRejected(s, request) ==
    IF request.requestId = s.activeRequestRef
    THEN [s EXCEPT !.error = "Failed to fetch media", !.results = <<>>,
                   !.isLoading = FALSE, !.requests = @ \ {request}]
    ELSE [s EXCEPT !.requests = @ \ {request}]

(* the effect on [isOpen, query, searchType, orientation, wizardStep] *)
searchEffect(s) ==
    IF s.isOpen /\ s.searchType # "upload" THEN fetchMedia(s) ELSE s

handleSearch(s) == IF s.searchType # "upload" THEN fetchMedia(s) ELSE s

handleSearchTypeChange(s, type) ==
    IF type # s.searchType
    THEN [s EXCEPT !.results = <<>>, !.searchType = type]
    ELSE s

(* the first commit of a freshly mounted modal: both effects run in the   *)
(* render with searchType 'photos', then the first one's setters apply    *)
mountSearch(initialKeywords) ==
    LET first == [ClosedSearch EXCEPT !.isOpen = TRUE, !.query = initialKeywords]
        fetched == searchEffect(first)
    IN  IF initialKeywords = "" \/ initialKeywords = "placeholder"
        THEN searchEffect([fetched EXCEPT !.searchType = "upload"])
        ELSE fetched

(***************************************************************************)
(* The API server's credit account of one user who is not an admin         *)
(* (api-server index.ts, db.user of the database layer).                   *)
(***************************************************************************)
MaxDeducts == 3
InitialCredits == 3

(* the cost field of the request body *)
Costs == {1, 2, 3}

InitialServer == [credits |-> InitialCredits, requests |-> <<>>]

DeductRequest(cost) ==
    [pc |-> "findUnique", cost |-> cost, status |-> 0, remainingCredits |-> 0]

(* db.user.update with data {credits: {decrement: cost}} *)
userUpdate(credits, cost) == credits - cost

(* the handler after db.user.findUnique resolved with the stored user *)
deductAfterFind(request, user) ==
    IF user.credits < request.cost
    THEN [request EXCEPT !.pc = "done", !.status = 403, !.remainingCredits = user.credits]
    ELSE [request EXCEPT !.pc = "update"]

(***************************************************************************)
(* Initial state: the editor opened on a generated script.                 *)
(***************************************************************************)
Init ==
    /\ \E script \in InitialScripts :
         /\ history = [past |-> <<>>,
                       present |-> [segments |-> script, audioTracks |-> <<>>],
                       future |-> <<>>]
         /\ activeSegmentId = script[1].id
         /\ last = Op("init", [past |-> <<>>,
                               present |-> [segments |-> script, audioTracks |-> <<>>],
                               future |-> <<>>], 0, 0)
    /\ currentTime = 0
    /\ isPlaying = FALSE
    /\ search = ClosedSearch
    /\ server = InitialServer
    /\ now = 1
    /\ gen = IdleGen
    /\ modal = ClosedModal
    /\ runs = <<>>

(***************************************************************************)
(* Actions: one per user event.                                            *)
(***************************************************************************)
SetActiveSegment ==
    \E i \in DOMAIN segments :
      /\ segments[i].id # activeSegmentId
      /\ activeSegmentId' = segments[i].id
      /\ UNCHANGED <<history, currentTime, isPlaying, search, server, now, gen, modal, runs, last>>

(* handleSeek *)
Seek ==
    \E time \in SeekTimes :
      LET clampedTime == MathMax(0, MathMin(time, totalDuration))
          rs == currentRenderStateAt(segments, clampedTime)
      IN  /\ clampedTime # currentTime
          /\ currentTime' = clampedTime
          /\ activeSegmentId' = IF rs.segmentIndex # 0 THEN segments[rs.segmentIndex].id
                                ELSE activeSegmentId
          /\ last' = Op("seek", history, 0, time)
          /\ UNCHANGED <<history, isPlaying, search, server, now, gen, modal, runs>>

togglePlay(prev) == ~prev

TogglePlay ==
    /\ isPlaying' = togglePlay(isPlaying)
    /\ last' = Op("togglePlay", history, 0, 0)
    /\ UNCHANGED <<history, activeSegmentId, currentTime, search, server, now, gen, modal, runs>>

(* the updater of the playback loop: [currentTime, isPlaying] after delta *)
playbackLoop(prev, playing, delta, total) ==
    LET nextTime == Add(prev, delta)
    IN  IF Ge(nextTime, total) THEN <<0, FALSE>> ELSE <<nextTime, playing>>

(* one animation frame of the playback loop, delta after the previous one *)
PlaybackTick ==
    /\ isPlaying
    /\ Lt(currentTime, MaxPlayhead)
    /\ \E delta \in TickDeltas :
         /\ currentTime' = playbackLoop(currentTime, isPlaying, delta, totalDuration)[1]
         /\ isPlaying' = playbackLoop(currentTime, isPlaying, delta, totalDuration)[2]
         /\ last' = Op("tick", history, 0, delta)
    /\ UNCHANGED <<history, activeSegmentId, search, server, now, gen, modal, runs>>

Undo ==
    /\ Len(history.past) > 0
    /\ history' = handleUndo(history)
    /\ activeSegmentId' = EnsureActive(activeSegmentId, handleUndo(history).present.segments)
    /\ last' = Op("undo", history, 0, 0)
    /\ UNCHANGED <<currentTime, isPlaying, search, server, now, gen, modal, runs>>

Redo ==
    /\ Len(history.future) > 0
    /\ history' = handleRedo(history)
    /\ activeSegmentId' = EnsureActive(activeSegmentId, handleRedo(history).present.segments)
    /\ last' = Op("redo", history, 0, 0)
    /\ UNCHANGED <<currentTime, isPlaying, search, server, now, gen, modal, runs>>

UpdateSegmentMedia ==
    \E clipIdx \in 0 .. Len(activeSegment.media) :
      /\ clipIdx = 0 => Len(activeSegment.media) < MaxClips
      /\ Commit("updateMedia",
                updateSegments(history.present, history,
                    handleUpdateSegmentMedia(segments, activeSegmentId, clipIdx, "picked", now)),
                activeSegmentId, activeSegmentIndex, clipIdx)

ReorderClips ==
    \E from \in DOMAIN activeSegment.media, to \in DOMAIN activeSegment.media :
      /\ from # to
      /\ Commit("reorderClips",
                updateSegments(history.present, history,
                    handleReorderClips(segments, activeSegmentId,
                                       handleClipDrop(activeSegment.media, from, to))),
                activeSegmentId, activeSegmentIndex, from)

DeleteSegment ==
    Commit("deleteSegment",
           updateSegments(history.present, history, handleDeleteSegment(segments, activeSegmentId)),
           DeleteNextActive(segments, activeSegmentId), activeSegmentIndex, 0)

CreateNewSegment ==
    /\ Len(segments) < MaxSegs
    /\ Commit("createSegment",
              updateSegments(history.present, history,
                             handleCreateNewSegment(segments, "picked", now)),
              <<"segment", now, "">>, Len(segments) + 1, 0)

RemoveMedia ==
    \E k \in DOMAIN activeSegment.media :
      Commit("removeMedia",
             updateSegments(history.present, history,
                 handleRemoveMedia(segments, activeSegmentId, activeSegment.media[k].id)),
             activeSegmentId, activeSegmentIndex, k)

UpdateSegmentAudio ==
    \E d \in AudioDurations :
      Commit("updateAudio",
             updateSegments(history.present, history,
                 handleUpdateSegmentAudio(segments, activeSegmentId, Some(AudioUrl("upload", d)), d)),
             activeSegmentId, activeSegmentIndex, d)

DurationChange ==
    \E value \in DurationInputs :
      Commit("updateDuration",
             updateSegments(history.present, history,
                 handleUpdateSegmentDuration(segments, activeSegmentId,
                                             handleDurationChange(value))),
             activeSegmentId, activeSegmentIndex, value)

NudgeSegment ==
    \E i \in DOMAIN segments, direction \in {"left", "right"} :
      /\ direction = "left" => i > 1
      /\ direction = "right" => i < Len(segments)
      /\ Commit("nudge",
                updateSegments(history.present, history,
                               handleNudgeSegment(segments, segments[i].id, direction)),
                activeSegmentId, i, 0)

ReorderSegments ==
    \E from \in DOMAIN segments, to \in DOMAIN segments :
      /\ from # to
      /\ Commit("reorder",
                updateSegments(history.present, history, handleSegmentDrop(segments, from, to)),
                activeSegmentId, from, to)

(* handleSeek(time), then the scissors button at that playhead:             *)
(* onSplitSegment(currentRenderState.segment.id, currentRenderState.localTime) *)
SplitSegment ==
    \E time \in SeekTimes :
      LET clampedTime == MathMax(0, MathMin(time, totalDuration))
          rs == currentRenderStateAt(segments, clampedTime)
          index == FindIndex(segments, segments[rs.segmentIndex].id)
          original == segments[index]
          splitTime == rs.localTime
      IN  /\ rs.segmentIndex # 0
          /\ IF SplitRejected(original, splitTime)
             THEN /\ last' = Op("splitRejected", history, index, splitTime)
                  /\ activeSegmentId' = segments[rs.segmentIndex].id
                  /\ currentTime' = clampedTime
                  /\ <<last, activeSegmentId, currentTime>>' # <<last, activeSegmentId, currentTime>>
                  /\ UNCHANGED <<history, isPlaying, search, server, now, gen, modal, runs>>
             ELSE /\ Len(segments) < MaxSegs
                  /\ now <= MaxOps
                  /\ history' = updateSegments(history.present, history,
                                               handleSplitSegment(segments, index, splitTime, now))
                  /\ activeSegmentId' = EnsureActive(original.id, history'.present.segments)
                  /\ currentTime' = clampedTime
                  /\ now' = now + 1
                  /\ last' = Op("split", history, index, splitTime)
                  /\ UNCHANGED <<isPlaying, search, server, gen, modal, runs>>

ScriptChange ==
    \E parts \in ScriptParts :
      LET updatedSegments == handleScriptChange(segments, parts, now)
      IN  /\ Len(updatedSegments) <= MaxSegs
          /\ updatedSegments # segments
          /\ Commit("scriptChange",
                    updateSegments(history.present, history, updatedSegments),
                    activeSegmentId, 0, Len(parts))

AddAudioTrack ==
    /\ Len(audioTracks) < MaxTracks
    /\ \E d \in TrackDurations :
         Commit("addAudioTrack",
                updateAudioTracks(history.present, history,
                                  handleAddAudioTrack(audioTracks, d, now)),
                activeSegmentId, 0, d)

DeleteAudioTrack ==
    \E k \in DOMAIN audioTracks :
      Commit("deleteAudioTrack",
             updateAudioTracks(history.present, history,
                               handleDeleteAudioTrack(audioTracks, audioTracks[k].id)),
             activeSegmentId, k, 0)

(* handleGenerateCurrentAudio, run to completion from the current render *)
GenerateCurrentAudio ==
    /\ gen = IdleGen
    /\ now <= MaxOps
    /\ TextWords(activeSegment.narration_text) # <<>>
    /\ \E audioDuration \in AudioDurations :
         LET duration == GeneratedDuration(audioDuration, activeSegment)
             calls == GenerateCalls(history.present, activeSegment, audioDuration)
         IN  /\ history' = ApplyCalls(history.present, history, calls)
             /\ last' = Op("generate", ApplyCalls(history.present, history, Front(calls)),
                           activeSegmentIndex, duration)
    /\ now' = now + 1
    /\ UNCHANGED <<activeSegmentId, currentTime, isPlaying, search, server, gen, modal, runs>>

RemoveAudio ==
    /\ now <= MaxOps
    /\ activeSegment.audioUrl # Undefined
    /\ LET calls == RemoveAudioCalls(history.present, activeSegment)
       IN  /\ history' = ApplyCalls(history.present, history, calls)
           /\ last' = Op("removeAudio", ApplyCalls(history.present, history, Front(calls)),
                         activeSegmentIndex, 0)
    /\ now' = now + 1
    /\ UNCHANGED <<activeSegmentId, currentTime, isPlaying, search, server, gen, modal, runs>>

Next ==
    \/ SetActiveSegment
    \/ Undo
    \/ Redo
    \/ UpdateSegmentMedia
    \/ ReorderClips
    \/ DeleteSegment
    \/ CreateNewSegment
    \/ RemoveMedia
    \/ UpdateSegmentAudio
    \/ DurationChange
    \/ NudgeSegment
    \/ ReorderSegments
    \/ SplitSegment
    \/ ScriptChange
    \/ AddAudioTrack
    \/ DeleteAudioTrack
    \/ GenerateCurrentAudio
    \/ RemoveAudio

Spec == Init /\ [][Next]_vars

(***************************************************************************)
(* Asynchronous operations: voice generation with its awaits, and the      *)
(* export dialog.  The editor behind the open dialog takes no clicks.      *)
(***************************************************************************)
EditDuration == ~modal.isOpen /\ DurationChange

EditAudio == ~modal.isOpen /\ UpdateSegmentAudio

EditScript == ~modal.isOpen /\ ScriptChange

(* the catch block of handleGenerateCurrentAudio: setAudioError only *)
GenerationFailedClearsAudio(curr, closure, segment) ==
    updateSegments(closure, curr,
                   handleUpdateSegmentAudio(closure.segments, segment.id, Undefined, NaN))

GenerationFailed(curr, closure, segment) == curr

(* handleGenerateCurrentAudio up to its first await *)
GenerateStart ==
    /\ gen = IdleGen
    /\ ~modal.isOpen
    /\ activeSegment.narration_text # EmptyText
    /\ gen' = [pc |-> "current", closure |-> history.present, segment |-> activeSegment]
    /\ last' = Op("generateStart", history, activeSegmentIndex, 0)
    /\ UNCHANGED <<history, activeSegmentId, currentTime, isPlaying, search, server, now, modal, runs>>

(* the awaits resolved: the updates go through the callbacks of the render *)
(* the click happened in, then finally clears the flag                     *)
GenerateDone ==
    /\ gen.pc = "current"
    /\ now <= MaxOps
    /\ \E audioDuration \in AudioDurations :
         LET calls == GenerateCalls(gen.closure, gen.segment, audioDuration)
         IN  /\ history' = ApplyCalls(gen.closure, history, calls)
             /\ last' = Op("generate", ApplyCalls(gen.closure, history, Front(calls)),
                           FindIndex(segments, gen.segment.id),
                           GeneratedDuration(audioDuration, gen.segment))
    /\ gen' = IdleGen
    /\ now' = now + 1
    /\ UNCHANGED <<activeSegmentId, currentTime, isPlaying, search, server, modal, runs>>

(* an await rejected *)
GenerateFails ==
    /\ gen.pc = "current"
    /\ history' = GenerationFailed(history, gen.closure, gen.segment)
    /\ last' = Op("generateFailed", history, FindIndex(segments, gen.segment.id), 0)
    /\ gen' = IdleGen
    /\ UNCHANGED <<activeSegmentId, currentTime, isPlaying, search, server, now, modal, runs>>

(* the next segment of the batch that has narration text, 0 when none is left *)
NextWithText(segs, i) ==
    LET rest == {j \in DOMAIN segs : j > i /\ TextWords(segs[j].narration_text) # <<>>}
    IN  IF rest = {} THEN 0 ELSE CHOOSE j \in rest : \A k \in rest : j <= k

(* updatedSegments[i] after a successful generation for segment i *)
BatchGenerated(s, audioDuration) ==
    LET duration == GeneratedDuration(audioDuration, s)
    IN  [s EXCEPT !.audioUrl = Some(AudioUrl("voice", audioDuration)),
                  !.duration = duration,
                  !.wordTimings = Some(estimateWordTimings(s.narration_text, duration))]

(* v2 handleGenerateAllAudio up to its first await *)
GenerateAllStart ==
    /\ gen = IdleGen
    /\ ~modal.isOpen
    /\ now <= MaxOps
    /\ NextWithText(segments, 0) # 0
    /\ gen' = [pc |-> "all", closure |-> history.present, updated |-> segments,
               i |-> NextWithText(segments, 0), changed |-> FALSE, failed |-> {}]
    /\ last' = Op("generateStart", history, 0, 0)
    /\ UNCHANGED <<history, activeSegmentId, currentTime, isPlaying, search, server, now, modal, runs>>

(* the loop from one await to the next, or to the end of the handler *)
BatchContinue(updated, changed, failed) ==
    LET j == NextWithText(gen.closure.segments, gen.i)
    IN  IF j # 0
        THEN /\ gen' = [gen EXCEPT !.updated = updated, !.changed = changed,
                                   !.failed = failed, !.i = j]
             /\ UNCHANGED <<history, now, last>>
        ELSE /\ gen' = IdleGen
             /\ history' = IF changed THEN updateSegments(gen.closure, history, updated)
                           ELSE history
             /\ now' = IF changed THEN now + 1 ELSE now
             /\ last' = [op |-> "generateAll", pre |-> history, idx |-> 0, t |-> 0,
                         failed |-> failed, start |-> gen.closure.segments]

GenerateAllSegmentDone ==
    /\ gen.pc = "all"
    /\ now <= MaxOps
    /\ \E audioDuration \in AudioDurations :
         BatchContinue([gen.updated EXCEPT ![gen.i] = BatchGenerated(gen.updated[gen.i], audioDuration)],
                       TRUE, gen.failed)
    /\ UNCHANGED <<activeSegmentId, currentTime, isPlaying, search, server, modal, runs>>

GenerateAllSegmentFails ==
    /\ gen.pc = "all"
    /\ now <= MaxOps
    /\ BatchContinue(gen.updated, gen.changed, gen.failed \cup {gen.i})
    /\ UNCHANGED <<activeSegmentId, currentTime, isPlaying, search, server, modal, runs>>

(* the Export button of the editor; the effect on isOpen resets the dialog *)
OpenExport ==
    /\ ~modal.isOpen
    /\ modal' = [modal EXCEPT !.isOpen = TRUE, !.status = "idle", !.progress = 0,
                              !.videoUrl = Undefined, !.error = ""]
    /\ UNCHANGED <<history, activeSegmentId, currentTime, isPlaying, search, server, now, gen, runs, last>>

(* handleClose: rendererRef.current() then onClose() *)
CloseExport ==
    /\ modal.isOpen
    /\ runs' = IF modal.rendererRef = 0 THEN runs
               ELSE [runs EXCEPT ![modal.rendererRef].isCancelled = TRUE]
    /\ modal' = [modal EXCEPT !.isOpen = FALSE]
    /\ UNCHANGED <<history, activeSegmentId, currentTime, isPlaying, search, server, now, gen, last>>

(* handleStartExport up to the await of the asset loading *)
StartExport ==
    /\ modal.isOpen
    /\ modal.status \in {"idle", "error"}
    /\ Len(runs) < MaxRuns
    /\ runs' = Append(runs, NewRun(segments))
    /\ modal' = [modal EXCEPT !.status = "rendering", !.progress = 0, !.error = "",
                              !.rendererRef = Len(runs) + 1]
    /\ UNCHANGED <<history, activeSegmentId, currentTime, isPlaying, search, server, now, gen, last>>

(* Promise.all of the asset loading resolved: the cancel check, then either *)
(* the await of the first audio fetch or recorder.start() and renderFrame() *)
AssetsLoaded ==
    \E r \in DOMAIN runs :
      /\ runs[r].pc = "assets"
      /\ IF runs[r].isCancelled
         THEN /\ runs' = [runs EXCEPT ![r].pc = "returned"]
              /\ modal' = modal
         ELSE IF HasAudio(runs[r].segments)
         THEN /\ runs' = [runs EXCEPT ![r].pc = "audio"]
              /\ modal' = modal
         ELSE /\ runs' = [runs EXCEPT ![r] = RunAfterFrame(runs[r], segments)]
              /\ modal' = ModalAfterFrame(modal, runs[r])
      /\ UNCHANGED <<history, activeSegmentId, currentTime, isPlaying, search, server, now, gen, last>>

(* the narration audio fetched and decoded: recorder.start() and renderFrame() *)
AudioMixed ==
    \E r \in DOMAIN runs :
      /\ runs[r].pc = "audio"
      /\ runs' = [runs EXCEPT ![r] = RunAfterFrame(runs[r], segments)]
      /\ modal' = ModalAfterFrame(modal, runs[r])
      /\ UNCHANGED <<history, activeSegmentId, currentTime, isPlaying, search, server, now, gen, last>>

(* fetch or decodeAudioData rejected: the catch of handleStartExport *)
AudioFails ==
    \E r \in DOMAIN runs :
      /\ runs[r].pc = "audio"
      /\ runs' = [runs EXCEPT ![r].pc = "error"]
      /\ modal' = [modal EXCEPT !.status = "error", !.error = "failed"]
      /\ UNCHANGED <<history, activeSegmentId, currentTime, isPlaying, search, server, now, gen, last>>

(* the requestAnimationFrame callback *)
RenderFrame ==
    \E r \in DOMAIN runs :
      /\ runs[r].pc = "frames"
      /\ runs' = [runs EXCEPT ![r] = RunAfterFrame(runs[r], segments)]
      /\ modal' = ModalAfterFrame(modal, runs[r])
      /\ UNCHANGED <<history, activeSegmentId, currentTime, isPlaying, search, server, now, gen, last>>

(* recorder.onstop *)
RecorderStopped ==
    \E r \in DOMAIN runs :
      /\ runs[r].pc = "stopping"
      /\ runs' = [runs EXCEPT ![r].pc = "complete"]
      /\ modal' = [modal EXCEPT !.videoUrl = Some(r), !.status = "complete"]
      /\ UNCHANGED <<history, activeSegmentId, currentTime, isPlaying, search, server, now, gen, last>>

RunSteps == AssetsLoaded \/ AudioMixed \/ AudioFails \/ RenderFrame \/ RecorderStopped

(* the editor with voice generation in flight, the dialog closed *)
NextVoice ==
    \/ EditDuration
    \/ EditAudio
    \/ EditScript
    \/ GenerateStart
    \/ GenerateDone
    \/ GenerateFails
    \/ GenerateAllStart
    \/ GenerateAllSegmentDone
    \/ GenerateAllSegmentFails

SpecVoice == Init /\ [][NextVoice]_vars

UpdateAudioTrack ==
    \E k \in DOMAIN audioTracks :
      \E updates \in TrackUpdates :
        Commit("updateAudioTrack",
               updateAudioTracks(history.present, history,
                                 handleUpdateAudioTrack(audioTracks, audioTracks[k].id, updates)),
               activeSegmentId, k, 0)

(* the player: seeking and playing while the timeline is edited *)
NextPlayback ==
    \/ Seek
    \/ TogglePlay
    \/ PlaybackTick
    \/ SetActiveSegment
    \/ DeleteSegment
    \/ DurationChange
    \/ UpdateSegmentAudio
    \/ Undo
    \/ Redo

SpecPlayback == Init /\ [][NextPlayback]_vars

UpdateTransition ==
    \E newTransition \in Transitions :
      /\ newTransition # activeSegment.transition
      /\ Commit("updateTransition",
                updateSegments(history.present, history,
                    handleUpdateSegmentTransition(segments, activeSegmentId, newTransition)),
                activeSegmentId, activeSegmentIndex, 0)

(* the timeline panel: audio lanes, transitions and segment lengths *)
NextTimeline ==
    \/ AddAudioTrack
    \/ UpdateAudioTrack
    \/ DeleteAudioTrack
    \/ UpdateTransition
    \/ DurationChange
    \/ SetActiveSegment
    \/ Undo
    \/ Redo

SpecTimeline == Init /\ [][NextTimeline]_vars

(* the edits made before and between exports, at most MaxExportOps of them *)
EditDurationBeforeExport == now <= MaxExportOps /\ EditDuration

EditAudioBeforeExport == now <= MaxExportOps /\ EditAudio

GenerateStartBeforeExport == now <= MaxExportOps /\ GenerateStart

(* the export dialog over an editor whose voice generation may still resolve *)
NextExport ==
    \/ EditDurationBeforeExport
    \/ EditAudioBeforeExport
    \/ GenerateStartBeforeExport
    \/ GenerateDone
    \/ OpenExport
    \/ CloseExport
    \/ StartExport
    \/ AssetsLoaded
    \/ AudioMixed
    \/ AudioFails
    \/ RenderFrame
    \/ RecorderStopped

SpecExport == Init /\ [][NextExport]_vars

(* every pending promise, animation frame and recorder event is delivered *)
FairSpecExport == SpecExport /\ WF_vars(RunSteps)

(***************************************************************************)
(* The media search modal over an editor that is left alone meanwhile.     *)
(***************************************************************************)
OpenSearch ==
    /\ ~search.isOpen
    /\ \E initialKeywords \in InitialKeywords :
         search' = mountSearch(initialKeywords)
    /\ UNCHANGED <<history, activeSegmentId, currentTime, isPlaying, server, now, gen, modal, runs, last>>

CloseSearch ==
    /\ search.isOpen
    /\ search' = ClosedSearch
    /\ UNCHANGED <<history, activeSegmentId, currentTime, isPlaying, server, now, gen, modal, runs, last>>

(* typing into the search box: setQuery, then the effect of the new render *)
SetQuery ==
    /\ search.isOpen
    /\ search.activeRequestRef < MaxSearches
    /\ \E q \in Queries :
         /\ q # search.query
         /\ search' = searchEffect([search EXCEPT !.query = q])
    /\ UNCHANGED <<history, activeSegmentId, currentTime, isPlaying, server, now, gen, modal, runs, last>>

(* submitting the search form *)
SubmitSearch ==
    /\ search.isOpen
    /\ search.activeRequestRef < MaxSearches
    /\ search' = handleSearch(search)
    /\ UNCHANGED <<history, activeSegmentId, currentTime, isPlaying, server, now, gen, modal, runs, last>>

(* a tab of the modal: handleSearchTypeChange, then the effect of the new render *)
SearchTypeChange ==
    /\ search.isOpen
    /\ search.activeRequestRef < MaxSearches
    /\ \E type \in SearchTypes :
         /\ type # search.searchType
         /\ search' = searchEffect(handleSearchTypeChange(search, type))
    /\ UNCHANGED <<history, activeSegmentId, currentTime, isPlaying, server, now, gen, modal, runs, last>>

SearchResolves ==
    /\ \E request \in search.requests, found \in BOOLEAN :
         search' = fetchMediaResolved(search, request, PexelsData(request, found))
    /\ UNCHANGED <<history, activeSegmentId, currentTime, isPlaying, server, now, gen, modal, runs, last>>

SearchRejects ==
    /\ \E request \in search.requests :
         search' = fetchMediaRejected(search, request)
    /\ UNCHANGED <<history, activeSegmentId, currentTime, isPlaying, server, now, gen, modal, runs, last>>

NextSearch ==
    \/ OpenSearch
    \/ CloseSearch
    \/ SetQuery
    \/ SubmitSearch
    \/ SearchTypeChange
    \/ SearchResolves
    \/ SearchRejects

SpecSearch == Init /\ [][NextSearch]_vars

(***************************************************************************)
(* Concurrent POST /credits/deduct requests of one user.                   *)
(***************************************************************************)
DeductArrives ==
    /\ Len(server.requests) < MaxDeducts
    /\ \E cost \in Costs :
         server' = [server EXCEPT !.requests = Append(@, DeductRequest(cost))]
    /\ UNCHANGED <<history, activeSegmentId, currentTime, isPlaying, search, now, gen, modal, runs, last>>

(* db.user.findUnique resolves; the handler runs on to its answer or its next await *)
DeductFindResolves ==
    /\ \E r \in DOMAIN server.requests :
         /\ server.requests[r].pc = "findUnique"
         /\ server' = [server EXCEPT !.requests[r] =
                           deductAfterFind(@, [credits |-> server.credits])]
    /\ UNCHANGED <<history, activeSegmentId, currentTime, isPlaying, search, now, gen, modal, runs, last>>

(* db.user.update resolves; the handler answers with the stored balance *)
DeductUpdateResolves ==
    /\ \E r \in DOMAIN server.requests :
         /\ server.requests[r].pc = "update"
         /\ LET credits == userUpdate(server.credits, server.requests[r].cost)
            IN  server' = [server EXCEPT !.credits = credits,
                                         !.requests[r].pc = "done",
                                         !.requests[r].status = 200,
                                         !.requests[r].remainingCredits = credits]
    /\ UNCHANGED <<history, activeSegmentId, currentTime, isPlaying, search, now, gen, modal, runs, last>>

NextCredits ==
    \/ DeductArrives
    \/ DeductFindResolves
    \/ DeductUpdateResolves

SpecCredits == Init /\ [][NextCredits]_vars

(***************************************************************************)
(* Properties.                                                             *)
(***************************************************************************)
PreSegments == last.pre.present.segments
SplitOriginal == PreSegments[last.idx]
SplitA == segments[last.idx]
SplitB == segments[last.idx + 1]

Instants == IF IsNaN(totalDuration) THEN {} ELSE 0 .. (totalDuration - 1)

(* C1: at every time T with 0 <= T < totalDuration the preview's resolver and *)
(* the exporter's per-frame lookup give the same segment, the same local time *)
(* in it and the same clip index.                                             *)
C1_PreviewExportAgree ==
    \A t \in Instants :
      (Ge(t, 0) /\ Lt(t, totalDuration))
        => currentRenderStateAt(segments, t) = renderFrame(segments, t)

C1_Witness ==
    /\ Len(segments) >= 2
    /\ currentRenderState.segmentIndex = 2
    /\ currentRenderState.clipIndex = 1
    /\ renderFrame(segments, currentTime) = currentRenderState

(* C2: right after any operation routed through updateSegments or updateAudioTracks, *)
(* past is the previous past with the previous present appended, and future is empty. *)
C2_MutationPushesHistory ==
    last.op \in MutatingOps
      => /\ history.past = Append(last.pre.past, last.pre.present)
         /\ Last(history.past) = last.pre.present
         /\ history.future = <<>>

C2_Witness ==
    /\ last.op \in MutatingOps
    /\ last.pre.future # <<>>
    /\ history.future = <<>>
    /\ history.present # last.pre.present

(* C3: the project always has at least one segment, in the present and in every *)
(* snapshot undo or redo can restore; deleteSegment on a single-segment project *)
(* removes nothing.                                                             *)
C3_AtLeastOneSegment ==
    /\ Len(segments) >= 1
    /\ \A k \in DOMAIN history.past : Len(history.past[k].segments) >= 1
    /\ \A k \in DOMAIN history.future : Len(history.future[k].segments) >= 1
    /\ (last.op = "deleteSegment" /\ Len(PreSegments) = 1) => segments = PreSegments

C3_Witness ==
    /\ last.op = "deleteSegment"
    /\ Len(PreSegments) = 1
    /\ Len(segments) = 1

(* C4: deleteSegment attempted on a project with exactly one segment leaves the *)
(* whole editor state as it was: segments, audioTracks, past and future.        *)
C4_RejectedDeleteChangesNothing ==
    (last.op = "deleteSegment" /\ Len(PreSegments) = 1) => history = last.pre

(* C5: a split is performed only for 0.5 <= t <= duration - 0.5, and an attempt *)
(* with t < 0.5 or t > duration - 0.5 is refused: the segments, their durations *)
(* and the history stay as they were.                                           *)
C5_SplitOnlyInRange ==
    /\ last.op = "split"
         => /\ Ge(last.t, HalfSecond)
            /\ Le(last.t, Sub(SplitOriginal.duration, HalfSecond))
            /\ Len(segments) = Len(PreSegments) + 1
    /\ last.op = "splitRejected"
         => /\ Lt(last.t, HalfSecond) \/ Gt(last.t, Sub(SplitOriginal.duration, HalfSecond))
            /\ history = last.pre

C5_Witness ==
    /\ last.op = "splitRejected"
    /\ Gt(last.t, Sub(SplitOriginal.duration, HalfSecond))
    /\ Lt(last.t, SplitOriginal.duration)
    /\ history = last.pre

WellFormed(timings) ==
    /\ \A k \in DOMAIN timings :
         /\ ~IsNaN(timings[k].start) /\ ~IsNaN(timings[k].end)
         /\ 0 <= timings[k].start
         /\ timings[k].start < timings[k].end
    /\ \A k \in 1 .. (Len(timings) - 1) : timings[k].end <= timings[k + 1].start

(* C8: a split at a valid time of a segment whose word timings are well formed *)
(* (0 <= start < end, sorted, non-overlapping) leaves the timings of both      *)
(* halves well formed, also when the time lies strictly inside a word.         *)
C8_SplitKeepsTimingsWellFormed ==
    (last.op = "split" /\ HasTimings(SplitOriginal) /\ WellFormed(Timings(SplitOriginal)))
      => /\ WellFormed(Timings(SplitA))
         /\ WellFormed(Timings(SplitB))

AllClipIds == Flatten([i \in DOMAIN segments |-> [k \in DOMAIN segments[i].media |-> segments[i].media[k].id]])

(* C9: no two clips of the project, in one segment or in different segments, *)
(* have the same id.                                                         *)
C9_ClipIdsUnique ==
    \A i, j \in DOMAIN AllClipIds : i # j => AllClipIds[i] # AllClipIds[j]

(* C10: every segment has at least one clip and a numeric duration above zero. *)
C10_MediaAndDurationValid ==
    \A i \in DOMAIN segments :
      /\ Len(segments[i].media) >= 1
      /\ ~IsNaN(segments[i].duration)
      /\ segments[i].duration > 0

(* C11: updateAudio(id, url, measuredDuration) sets the segment's audioUrl to url, *)
(* sets its duration to measuredDuration only when that is given and less than the *)
(* current duration, leaves the duration as it was otherwise, and changes no other *)
(* segment.                                                                        *)
C11_UpdateAudioShrinksOnly ==
    last.op = "updateAudio"
      => LET before == PreSegments[last.idx]
             after == segments[last.idx]
             measured == last.t
         IN  /\ Len(segments) = Len(PreSegments)
             /\ after.audioUrl = Some(AudioUrl("upload", measured))
             /\ after.duration =
                  (IF ~IsNaN(measured) /\ ~IsNaN(before.duration) /\ measured < before.duration
                   THEN measured ELSE before.duration)
             /\ after = [before EXCEPT !.audioUrl = after.audioUrl, !.duration = after.duration]
             /\ \A i \in DOMAIN segments : i # last.idx => segments[i] = PreSegments[i]

C11_Witness ==
    /\ last.op = "updateAudio"
    /\ Len(segments) >= 2
    /\ ~IsNaN(last.t)
    /\ last.t > PreSegments[last.idx].duration
    /\ segments[last.idx].duration = PreSegments[last.idx].duration
    /\ segments[last.idx].audioUrl # Undefined

(* C12: a completed voice generation leaves every segment's duration less than or *)
(* equal to what it was before the generation, whatever the measured length of the *)
(* generated audio.                                                                *)
C12_GenerationNeverGrows ==
    [][(last'.op = "generate" /\ now' # now)
         => \A i \in DOMAIN segments' :
              i \in DOMAIN segments => Le(segments'[i].duration, segments[i].duration)]_vars

ElapsedBefore(i) == SumDurations(SubSeq(segments, 1, i - 1))
Contains(i, t) == ElapsedBefore(i) <= t /\ t < ElapsedBefore(i) + segments[i].duration
MinOf(a, b) == IF a <= b THEN a ELSE b

(* C13: for 0 <= t < totalDuration resolve returns the one segment whose interval *)
(* [elapsed, elapsed + duration) contains t, with localTime = t - elapsed and       *)
(* clipIndex = min(media.length - 1, floor(localTime / (duration / media.length))), *)
(* a valid index into that segment's media; for t >= totalDuration it returns null. *)
C13_ResolveFormula ==
    ~IsNaN(totalDuration)
      => /\ \A t \in 0 .. (totalDuration - 1) :
              LET rs == currentRenderStateAt(segments, t)
                  i == rs.segmentIndex
                  n == Len(segments[i].media)
              IN  /\ i \in DOMAIN segments
                  /\ Contains(i, t)
                  /\ \A j \in DOMAIN segments : Contains(j, t) => j = i
                  /\ rs.localTime = t - ElapsedBefore(i)
                  /\ rs.clipIndex = MinOf(n - 1, (rs.localTime * n) \div segments[i].duration)
                  /\ rs.clipIndex \in 0 .. (n - 1)
         /\ \A t \in totalDuration .. (totalDuration + OneSecond) :
              currentRenderStateAt(segments, t) = NullState

(* C14: the timeline length of the playback loop and seek clamp, of the browser  *)
(* exporter and of the server renderer is one value, the sum of the segments'     *)
(* durations, also when a narration is longer or shorter than its segment.        *)
C14_TotalsAgree ==
    /\ exportTotalDuration(segments) = totalDuration
    /\ renderVideoDuration(segments) = totalDuration

(* C15: for one segment the preview and the exporter give the caption chunker the *)
(* same inputs, the maximum line width among them, so both get the same chunks.    *)
C15_SameChunkerInputs ==
    \A i \in DOMAIN segments :
      HasTimings(segments[i])
        => previewChunkerInput(segments[i]) = exportChunkerInput(segments[i])

(* C16: a segment whose wordTimings are absent or empty shows no caption at any *)
(* time, in the preview, in the browser export and in the server render, also    *)
(* when its narration text is not empty.                                          *)
C16_NoCaptionWithoutTimings ==
    \A i \in DOMAIN segments :
      ~HasTimings(segments[i])
        => /\ \A t \in 0 .. (2 * OneSecond) :
                /\ renderKaraokeText(segments[i], t) = <<>>
                /\ drawKaraokeText(segments[i], t) = <<>>
           /\ serverSubtitles(segments[i]) = <<>>

(* C17: a run of the export that was cancelled (the dialog closed on it) while *)
(* it was loading assets, fetching or decoding audio, or in its frame loop     *)
(* never afterwards sets the status to `complete` or publishes a video URL,   *)
(* and once a later attempt has been started it changes neither the progress  *)
(* nor the status that attempt shows.                                          *)
C17_CancelledRunIsSilent ==
    [][\A r \in DOMAIN runs :
         (runs[r].isCancelled /\ runs[r].pc \in ActivePcs /\ runs'[r] # runs[r])
           => /\ modal'.status = "complete" => modal.status = "complete"
              /\ modal'.videoUrl = modal.videoUrl
              /\ modal.rendererRef # r => /\ modal'.status = modal.status
                                          /\ modal'.progress = modal.progress]_vars

RunPc(r) == IF r \in DOMAIN runs THEN runs[r].pc ELSE "none"
RunCancelled(r) == r \in DOMAIN runs /\ runs[r].isCancelled

(* C18: every run of the export that has entered `rendering` and is not     *)
(* cancelled eventually sets the status to `complete` or to `error`; in     *)
(* particular a run in which a step threw, the per-frame loop included,     *)
(* ends in `error`.                                                         *)
C18_ExportTerminates ==
    \A r \in 1 .. MaxRuns :
      [](RunPc(r) \in ActivePcs /\ ~RunCancelled(r)
           => <>(RunCancelled(r) \/ RunPc(r) \in {"complete", "error"}))

(* C19: every frame a run of the export composes (segment, clip, local time *)
(* and caption) is taken from the segment list as it was when that export   *)
(* was started, whatever has happened to the live project since.            *)
C19_FramesFromStartSnapshot ==
    \A r \in DOMAIN runs :
      runs[r].frame # NoFrame
        => runs[r].frame = ComposeFrame(runs[r].segments, runs[r].drawn)

(* a frame composed by an uncancelled run after the live project changed *)
C19_Witness ==
    \E r \in DOMAIN runs :
      /\ runs[r].pc = "frames"
      /\ ~runs[r].isCancelled
      /\ runs[r].frame # NoFrame
      /\ runs[r].stale
      /\ segments # runs[r].segments

SameNarration(a, b) ==
    /\ a.audioUrl = b.audioUrl
    /\ a.wordTimings = b.wordTimings
    /\ a.duration = b.duration

C20_BatchWitness ==
    /\ last.op = "generateAll"
    /\ last.failed # {}
    /\ history # last.pre

(* C21: after a script-text edit (one that changed the text of some part), *)
(* a segment that still has a text part and whose part equals its previous *)
(* narration_text keeps its audioUrl and wordTimings; only segments whose  *)
(* text changed, or that are left without a part, lose them.  last.t is    *)
(* the number of parts of the edit.                                        *)
C21_ScriptEditInvalidatesOnlyChanged ==
    (/\ last.op = "scriptChange"
     /\ \E j \in DOMAIN segments :
          j \notin DOMAIN PreSegments
            \/ segments[j].narration_text # PreSegments[j].narration_text)
      => \A i \in DOMAIN PreSegments :
           (i <= last.t /\ segments[i].narration_text = PreSegments[i].narration_text)
             => /\ segments[i].audioUrl = PreSegments[i].audioUrl
                /\ segments[i].wordTimings = PreSegments[i].wordTimings

(* C22: in the server renderer a segment with N >= 1 clips and duration D   *)
(* renders each clip for (D + (N-1)*0.5)/N, fades clip j in at offset      *)
(* j*(perClip - 0.5), and the chain is exactly D long; D = 10 s, N = 2     *)
(* gives perClip 5.25 s and offset 4.75 s.                                 *)
C22_ClipChainFillsSegment ==
    /\ FracEq(perClipDurationOf(10 * OneSecond, 2), Frac(21 * OneSecond, 4))
    /\ FracEq(xfadeOffsets(perClipDurationOf(10 * OneSecond, 2), 2)[1], Frac(19 * OneSecond, 4))
    /\ \A i \in DOMAIN segments :
         LET seg == segments[i]
             N == Len(seg.media)
             D == seg.duration
             perClip == perClipDuration(seg)
             offs == xfadeOffsets(perClip, N)
         IN  (N >= 1 /\ ~IsNaN(D))
               => /\ ~IsFracNaN(perClip)
                  /\ FracEq(perClip, Frac(D + (N - 1) * transitionDur, N))
                  /\ Len(offs) = N - 1
                  /\ \A j \in DOMAIN offs :
                       FracEq(offs[j], Frac(j * (perClip.num - transitionDur * perClip.den),
                                            perClip.den))
                  /\ FracEq(chainLength(perClip, N), FracOfTicks(D))

(* C23: in the browser export and in the server render the narration of    *)
(* segment i starts at the sum of the durations of the segments before it, *)
(* whatever the lengths of the earlier narration files and whether or not  *)
(* earlier segments have narration.                                        *)
C23_NarrationStartsAtSegmentStart ==
    \A i \in DOMAIN segments :
      segments[i].audioUrl # Undefined
        => /\ exportNarrationStart(segments, i) = SumDurations(SubSeq(segments, 1, i - 1))
           /\ renderNarrationStart(segments, i) = SumDurations(SubSeq(segments, 1, i - 1))

(* C24: in the server render a background track contributes nothing before *)
(* its startTime, nothing from startTime + duration on and nothing after   *)
(* the end of the video, and in between its samples times exactly its own  *)
(* volume, for every volume from 0 to 1.                                   *)
C24_TrackGainIsItsVolume ==
    \A k \in DOMAIN audioTracks :
      LET track == audioTracks[k]
          videoLength == renderVideoDuration(segments)
      IN  ~IsNaN(videoLength)
            => \A t \in 0 .. (videoLength + OneSecond) :
                 renderTrackGain(track, t, videoLength) =
                   (IF t >= track.startTime /\ t < track.startTime + track.duration
                       /\ t < videoLength
                    THEN track.volume ELSE 0)

(* C25: on every frame of the browser export the next segment's first clip *)
(* (at its time zero) is blended in exactly when the current segment's     *)
(* transition is 'fade', a next segment exists and the frame lies in the   *)
(* last 0.7 s of the current segment; the blend factor is                  *)
(* 1 - timeToEnd/0.7, within [0,1]; nothing is blended on the last segment.*)
C25_FadeOnlyInWindow ==
    \A t \in 0 .. (FinitePrefix(segments) + OneSecond) :
      (~Ge(t, SumDurations(segments)) /\ ~FrameThrows(segments, t))
        => LET b == exportBlend(segments, t)
               f == renderFrame(segments, t)
               seg == segments[f.segmentIndex]
               toEnd == Sub(seg.duration, f.localTime)
               window == TransitionTenths * OneSecond
           IN  /\ b.blend <=> /\ seg.transition = "fade"
                             /\ f.segmentIndex < Len(segments)
                             /\ ~IsNaN(toEnd)
                             /\ 10 * toEnd < window
               /\ f.segmentIndex = Len(segments) => ~b.blend
               /\ b.blend
                    => /\ b.nextSegment = f.segmentIndex + 1
                       /\ b.time = 0
                       /\ FracEq(b.transitionProgress, Frac(window - 10 * toEnd, window))
                       /\ b.transitionProgress.num >= 0
                       /\ b.transitionProgress.num <= b.transitionProgress.den

(* C26: mutations issued back-to-back from one handler all show in the     *)
(* resulting present: after a voice generation the segment has the new     *)
(* audioUrl, the new word timings and, if the audio was longer, the new    *)
(* duration (last.t); after remove-audio it has no audioUrl and empty      *)
(* word timings.                                                           *)
C26_BackToBackMutationsAllApply ==
    /\ last.op = "generate"
         => LET seg == segments[last.idx]
                before == PreSegments[last.idx]
            IN  /\ seg.audioUrl # Undefined
                /\ seg.audioUrl # before.audioUrl
                /\ seg.wordTimings = Some(estimateWordTimings(seg.narration_text, last.t))
                /\ Gt(last.t, before.duration) => seg.duration = last.t
    /\ last.op = "removeAudio"
         => /\ segments[last.idx].audioUrl = Undefined
            /\ segments[last.idx].wordTimings = Some(<<>>)

Concatenated(h) == h.past \o <<h.present>> \o h.future

(* C27: undo with an empty past and redo with an empty future change       *)
(* nothing; otherwise redo undoes undo and undo undoes redo, restoring     *)
(* past, present and future exactly, and neither changes the sequence      *)
(* past + [present] + future.                                              *)
C27_UndoRedoInverse ==
    /\ Len(history.past) = 0 => handleUndo(history) = history
    /\ Len(history.future) = 0 => handleRedo(history) = history
    /\ Len(history.past) > 0 => handleRedo(handleUndo(history)) = history
    /\ Len(history.future) > 0 => handleUndo(handleRedo(history)) = history
    /\ Concatenated(handleUndo(history)) = Concatenated(history)
    /\ Concatenated(handleRedo(history)) = Concatenated(history)
    /\ last.op \in {"undo", "redo"} => Concatenated(history) = Concatenated(last.pre)

(* an undo was applied while redo entries were already waiting *)
C27_Witness ==
    /\ last.op = "undo"
    /\ Len(history.future) >= 2
    /\ handleRedo(history) = last.pre

(* C28: after every step of seeking, playing and editing the playhead lies *)
(* in 0 .. totalDuration (whenever totalDuration is a number), and a       *)
(* playback tick that would reach or pass totalDuration stops the playback *)
(* and puts the playhead at 0.                                             *)
C28_PlayheadInRange ==
    [][/\ ~IsNaN(SumDurations(history'.present.segments))
            => /\ Ge(currentTime', 0)
               /\ Le(currentTime', SumDurations(history'.present.segments))
       /\ (/\ last'.op = "tick"
           /\ isPlaying
           /\ history' = history
           /\ <<currentTime, isPlaying>>' # <<currentTime, isPlaying>>
           /\ Ge(Add(currentTime, last'.t), totalDuration))
            => currentTime' = 0 /\ ~isPlaying']_vars

(* C29: in the media search modal, whatever is shown as results answers    *)
(* the current query and search type, and the loading flag is set only     *)
(* while a request for the current query is outstanding.                   *)
C29_OnlyLatestSearchIntent ==
    search.isOpen =>
        /\ \A i \in DOMAIN search.results :
             /\ search.results[i].query = search.query
             /\ search.results[i].searchType = search.searchType
        /\ search.isLoading =>
             \E request \in search.requests : request.query = search.query

(* C30: concurrent deductions never drive the stored balance of a user who *)
(* is not an admin below zero and never raise it; every decrement of cost  *)
(* c finds a balance of at least c, and a 403 leaves the balance alone.    *)
C30_DeductionsAreGuarded ==
    [][/\ server'.credits >= 0
       /\ server'.credits <= server.credits
       /\ \A r \in DOMAIN server.requests :
            /\ (server.requests[r].pc = "update" /\ server'.requests[r].pc = "done")
                 => server.credits >= server.requests[r].cost
            /\ (server'.requests[r].status = 403 /\ server.requests[r].status # 403)
                 => server'.credits = server.credits]_vars

====
